---- MODULE Spec2Model ----
(***************************************************************************)
(* A model of seedbank (src/seedbank/seedbank.py, src/seedbank/cli.py):    *)
(* the archive registry, archive creation, the choice between the          *)
(* single-request and the multipart upload, and the MultipartUploader.     *)
(*                                                                         *)
(* Strings are modelled as sequences of small naturals ("characters"):     *)
(* the empty string is <<>>.  A byte count stands for a file's content:    *)
(* only sizes and offsets matter to the upload arithmetic.  PART_SIZE is   *)
(* 8 MiB in the source; here it is MaxPartSize for a repository session    *)
(* and any of 1..MaxPartSize for an uploader driven on its own, so that    *)
(* the arithmetic is exercised on payloads of a few bytes.                 *)
(***************************************************************************)
EXTENDS Integers, Sequences, FiniteSets, TLC

\* ---- bounds of the model ------------------------------------------------
MaxPartSize == 2
MaxArchives == 2
UidLen      == 2
MaxVaultIds == 2
InfoSize    == 1
MaxClock    == 1
\* descriptions run to DescriptionWidth + MaxOver letters, then MaxTail characters
MaxOver     == 1
MaxTail     == 2
\* a datetime has microseconds 0 .. MaxMicrosecond
MaxMicrosecond == 1
\* the caller of a MultipartUploader starts no method after this many requests
MaxApiCalls == 4
\* a repository found on disk has 0 .. MaxCommits commits
MaxCommits == 1

\* the largest payload: two bytes past the single-request threshold
MaxSize == 2 * MaxPartSize + 2

\* no upload sends more requests than this: one per byte, initiate, complete
MaxCalls == MaxSize + 3

\* the alphabet of a uid (hex digits in the source, two digits here)
UidDigits == {0, 1}

\* the payload sizes create_archive is tried on: one byte below the
\* single-request threshold, the threshold, one byte above it
PayloadSizes(part_size) ==
    { s \in 2 * part_size - 1 .. 2 * part_size + 1 : s >= InfoSize }

\* the readings datetime.now() can give
ClockReadings == 0 .. MaxClock

VARIABLES
    PART_SIZE,      \* seedbank.PART_SIZE
    archives,       \* ArchiveManager.archives: the registry, a sequence of Archive
    everUploaded,   \* history variable, parallel to archives: an upload of it succeeded at the vault
    metaFiles,      \* archives/<uid>.json: file name (uid) -> content
    localFiles,     \* local/<uid>.zip: file name (uid) -> size in bytes
    history,        \* the commits of the git repository, oldest first
    uploader,       \* the MultipartUploader of the running upload
    calls,          \* the requests the running (or last) upload sent to the vault
    vaultSessions,  \* vault: the multipart uploads initiated and neither completed nor aborted
    vaultArchives,  \* vault: the archive ids it stores
    vaultNext,      \* vault: the next identifier it hands out
    pc,             \* position of the running command
    cur,            \* upload_archive's local `archive`: its index in the registry (0: none)
    lastResult,     \* how the last command ended
    infoMembers,    \* the info.json member of local/<uid>.zip: file name (uid) -> content
    listing,        \* the list command: the archive it prints and the row printed
    jsonDoc,        \* Archive.to_file / from_file: the archive, the file, the archive read back
    repoDir         \* Seedbank.init: the directory Seedbank.path points to

vars == << PART_SIZE, archives, everUploaded, metaFiles, localFiles, history,
           uploader, calls, vaultSessions, vaultArchives, vaultNext, pc, cur,
           lastResult, infoMembers, listing, jsonDoc, repoDir >>

\* the value of a variable in a specification that does not use it
NotUsed == <<>>

\* ---- helpers --------------------------------------------------------------
Min(a, b) == IF a < b THEN a ELSE b

RECURSIVE Pow(_, _)
Pow(b, e) == IF e = 0 THEN 1 ELSE b * Pow(b, e - 1)

\* a dict with no key
EmptyDict == [k \in {} |-> <<>>]

\* str.startswith
startswith(s, prefix) ==
    /\ Len(prefix) <= Len(s)
    /\ SubSeq(s, 1, Len(prefix)) = prefix

\* make_now_hash: the hex digest of the clock reading, UidLen digits long
make_now_hash(t) ==
    [i \in 1 .. UidLen |->
        (t \div Pow(Cardinality(UidDigits), UidLen - i)) % Cardinality(UidDigits)]

\* Archive.__init__ at clock reading t
NewArchive(t) ==
    [uid |-> make_now_hash(t), size |-> 0, remote_id |-> <<>>,
     aws_response |-> EmptyDict]

\* ---- jsondate: JSON with dates ---------------------------------------------------
\* A value that may be a date is a record: a datetime is
\* [type |-> "datetime", fmt |-> "", v |-> << second, microsecond >>], a date is
\* [type |-> "date", fmt |-> "", v |-> << day >>], and a text is
\* [type |-> "str", fmt |-> f, v |-> n], f being the date format the text is
\* written in ("" for any other text) and n what it spells.
ISO8601_FMT == "%Y-%m-%dT%H:%M:%SZ"
DATE_FMT == "%Y-%m-%d"

\* the fields of an archive whose value can be a datetime, and those whose text
\* can be in a date format (a uid is hex digits, a remote id is the vault's)
DatetimeFields == { "create_time" }
FreeTextFields == { "create_time", "description" }

\* datetime.strftime(ISO8601_FMT): the text names the second, nothing finer
strftime(value) == [type |-> "str", fmt |-> ISO8601_FMT, v |-> << value.v[1] >>]

\* jsondate's encoder: a datetime is written as its ISO 8601 text
datetime_encoder(value) ==
    IF value.type = "datetime" THEN strftime(value) ELSE value

\* jsondate's decoder: a text in one of the two date formats is read as that date
datetime_decoder(value) ==
    IF value.type = "str" /\ value.fmt = ISO8601_FMT
    THEN [type |-> "datetime", fmt |-> "", v |-> << value.v[1], 0 >>]
    ELSE IF value.type = "str" /\ value.fmt = DATE_FMT
    THEN [type |-> "date", fmt |-> "", v |-> value.v]
    ELSE value

\* to_json: json.dumps of jsondate
to_json(obj) ==
    [k \in DOMAIN obj |->
        IF k \in DatetimeFields THEN datetime_encoder(obj[k]) ELSE obj[k]]

\* json.loads of jsondate
json_loads(text) ==
    [k \in DOMAIN text |->
        IF k \in FreeTextFields THEN datetime_decoder(text[k]) ELSE text[k]]

\* Archive.to_file: the JSON object written, one member per field of the archive
to_file(a) == to_json([k \in DOMAIN a |-> a[k]])

\* Archive.from_file: the archive read from the JSON object of a file
from_file(file) ==
    LET archive_obj == json_loads(file) IN
    [k \in DOMAIN archive_obj |-> archive_obj[k]]

\* Archive.is_uploaded
is_uploaded(a) == a.remote_id # <<>>

\* ---- ArchiveManager ---------------------------------------------------------
\* add that puts the new archive first
add_front(archs, a) == << a >> \o archs

\* ArchiveManager.add
add(archs, a) == Append(archs, a)

\* the list comprehension of get_archive: the matching archives, as registry indices
RECURSIVE matches(_, _, _)
matches(archs, uid_prefix, i) ==
    IF i > Len(archs) THEN <<>>
    ELSE (IF startswith(archs[i].uid, uid_prefix) THEN <<i>> ELSE <<>>)
         \o matches(archs, uid_prefix, i + 1)

\* get_archive that lets two matches through
get_archive_first(archs, uid_prefix) ==
    LET m == matches(archs, uid_prefix, 1) IN
    IF Len(m) > 2 THEN [kind |-> "raise", index |-> 0]
    ELSE IF Len(m) = 0 THEN [kind |-> "None", index |-> 0]
    ELSE [kind |-> "archive", index |-> m[1]]

\* ArchiveManager.get_archive: raise / None / the archive (its index)
get_archive(archs, uid_prefix) ==
    LET m == matches(archs, uid_prefix, 1) IN
    IF Len(m) > 1 THEN [kind |-> "raise", index |-> 0]
    ELSE IF Len(m) = 0 THEN [kind |-> "None", index |-> 0]
    ELSE [kind |-> "archive", index |-> m[1]]

\* resolve_archive over a get_archive that picks the first of several matches
resolve_archive_first(archs, uid_prefix) ==
    LET r == get_archive_first(archs, uid_prefix) IN
    IF r.kind = "raise" THEN [kind |-> "ambiguous", index |-> 0]
    ELSE IF r.kind = "None" THEN [kind |-> "not_found", index |-> 0]
    ELSE r

\* Seedbank.resolve_archive: a None becomes an exception
resolve_archive(archs, uid_prefix) ==
    LET r == get_archive(archs, uid_prefix) IN
    IF r.kind = "raise" THEN [kind |-> "ambiguous", index |-> 0]
    ELSE IF r.kind = "None" THEN [kind |-> "not_found", index |-> 0]
    ELSE r

\* ---- the vault (boto3 Glacier client) ----------------------------------------
\* an identifier the vault hands out
VaultId(n) == <<n>>

\* the location of a stored archive
Location(id) == <<0>> \o id

\* the response of upload_archive and of complete_multipart_upload
Receipt(id) == [archiveId |-> id, location |-> Location(id)]

\* one request, as the vault sees it
Call(op, uploadId, range, body, size, ok, done) ==
    [op |-> op, uploadId |-> uploadId, range |-> range, body |-> body,
     size |-> size, ok |-> ok, done |-> done]

NoRange == << 0, 0, 0 >>

\* ---- MultipartUploader -------------------------------------------------------
\* MultipartUploader.__init__
NewUploader(zip_path) ==
    [zip_path |-> zip_path, opened |-> FALSE, tell |-> 0, zip_file_size |-> 0,
     upload_id |-> <<>>]

\* MultipartUploader.open
open(u, files) ==
    [u EXCEPT !.opened = TRUE, !.tell = 0, !.zip_file_size = files[u.zip_path]]

\* end_byte taken one byte too far
end_byte_next(current_byte, zip_file_size, part_size) ==
    LET e == current_byte + part_size IN
    IF e > zip_file_size THEN zip_file_size - 1 ELSE e

\* the end_byte computed by upload_part
end_byte(current_byte, zip_file_size, part_size) ==
    LET e == (current_byte + part_size) - 1 IN
    IF e > zip_file_size THEN zip_file_size - 1 ELSE e

\* the position advanced by n whatever the file holds
read_past(tell, file_size, n) == tell + n

\* file.read(n): the position after the read
read(tell, file_size, n) == Min(tell + n, file_size)

\* ---- initial state ------------------------------------------------------------
\* a repository right after `sb init` and connect(): no archive, an empty vault
Init ==
    /\ PART_SIZE = MaxPartSize
    /\ archives = <<>>
    /\ everUploaded = <<>>
    /\ metaFiles = <<>>
    /\ localFiles = <<>>
    /\ history = <<>>
    /\ uploader = NewUploader(<<>>)
    /\ calls = <<>>
    /\ vaultSessions = {}
    /\ vaultArchives = {}
    /\ vaultNext = 1
    /\ pc = "idle"
    /\ cur = 0
    /\ lastResult = "none"
    /\ infoMembers = <<>>
    /\ listing = NotUsed
    /\ jsonDoc = NotUsed
    /\ repoDir = NotUsed

\* ---- Seedbank.create_archive ---------------------------------------------------
\* zip_file.write(meta_path, 'info.json'): the member is the file on disk
info_member(meta_files, meta_path) == meta_files[meta_path]

\* create_archive that writes and embeds the metadata before it sets the size,
\* and writes the metadata file again afterwards
create_archive_embed_first(t, total) ==
    /\ pc = "idle"
    /\ total \in PayloadSizes(PART_SIZE)
    /\ Len(archives) < MaxArchives
    /\ LET archive == [NewArchive(t) EXCEPT !.size = total - InfoSize]
           written == (archive.uid :> to_file(NewArchive(t))) @@ metaFiles
       IN
       /\ metaFiles' = (archive.uid :> to_file(archive)) @@ metaFiles
       /\ infoMembers' = (archive.uid :> info_member(written, archive.uid)) @@ infoMembers
       /\ localFiles' = (archive.uid :> total) @@ localFiles
       /\ archives' = add(archives, archive)
       /\ everUploaded' = Append(everUploaded, FALSE)
    /\ lastResult' = "created"
    /\ UNCHANGED << PART_SIZE, listing, jsonDoc, repoDir, history, uploader, calls,
                    vaultSessions, vaultArchives, vaultNext, pc, cur >>

\* t: the reading of datetime.now(); total: the size of the closed zip, of which
\* InfoSize bytes are the info.json member written last
create_archive(t, total) ==
    /\ pc = "idle"
    /\ total \in PayloadSizes(PART_SIZE)
    /\ Len(archives) < MaxArchives
    /\ LET archive == [NewArchive(t) EXCEPT !.size = total - InfoSize]
           written == (archive.uid :> to_file(archive)) @@ metaFiles
       IN
       /\ metaFiles' = written
       /\ infoMembers' = (archive.uid :> info_member(written, archive.uid)) @@ infoMembers
       /\ localFiles' = (archive.uid :> total) @@ localFiles
       /\ archives' = add(archives, archive)
       /\ everUploaded' = Append(everUploaded, FALSE)
    /\ lastResult' = "created"
    /\ UNCHANGED << PART_SIZE, listing, jsonDoc, repoDir, history, uploader, calls,
                    vaultSessions, vaultArchives, vaultNext, pc, cur >>

\* ---- the requests of MultipartUploader, on the uploader and the vault --------
\* every request can fail: boto3 raises, and the exception ends the command

\* start_upload that drops the uploadId of the response
start_upload_no_id(ok) ==
    LET id == VaultId(vaultNext) IN
    /\ calls' = Append(calls,
           Call("initiate_multipart_upload", IF ok THEN id ELSE <<>>, NoRange, 0,
                PART_SIZE, ok, FALSE))
    /\ IF ok
       THEN /\ uploader' = uploader
            /\ vaultSessions' = vaultSessions \cup {id}
            /\ vaultNext' = vaultNext + 1
       ELSE UNCHANGED << uploader, vaultSessions, vaultNext >>

\* MultipartUploader.start_upload
start_upload(ok) ==
    LET id == VaultId(vaultNext) IN
    /\ calls' = Append(calls,
           Call("initiate_multipart_upload", IF ok THEN id ELSE <<>>, NoRange, 0,
                PART_SIZE, ok, FALSE))
    /\ IF ok
       THEN /\ uploader' = [uploader EXCEPT !.upload_id = id]
            /\ vaultSessions' = vaultSessions \cup {id}
            /\ vaultNext' = vaultNext + 1
       ELSE UNCHANGED << uploader, vaultSessions, vaultNext >>

\* done reported one byte early
upload_part_done_early(tell, zip_file_size) == tell >= zip_file_size - 1

\* the value upload_part returns: the file has been read to its end
upload_part_done(tell, zip_file_size) == tell = zip_file_size

\* MultipartUploader.upload_part
upload_part(ok) ==
    LET current_byte == uploader.tell
        e            == end_byte(current_byte, uploader.zip_file_size, PART_SIZE)
        after        == read(uploader.tell, uploader.zip_file_size, PART_SIZE)
    IN
    /\ Len(calls) < MaxCalls
    /\ uploader' = [uploader EXCEPT !.tell = after]
    /\ calls' = Append(calls,
           Call("upload_multipart_part", uploader.upload_id,
                << current_byte, e, uploader.zip_file_size >>,
                after - current_byte, uploader.zip_file_size, ok,
                ok /\ upload_part_done(after, uploader.zip_file_size)))

\* the tail of MultipartUploader.upload: seek(0), the tree hash (which reads
\* the file to its end), complete_multipart_upload
complete_upload(ok) ==
    LET id == VaultId(vaultNext) IN
    /\ uploader' = [uploader EXCEPT
           !.tell = read(0, uploader.zip_file_size, uploader.zip_file_size)]
    /\ calls' = Append(calls,
           Call("complete_multipart_upload", uploader.upload_id, NoRange, 0,
                uploader.zip_file_size, ok, FALSE))
    /\ IF ok
       THEN /\ vaultSessions' = vaultSessions \ {uploader.upload_id}
            /\ vaultArchives' = vaultArchives \cup {id}
            /\ vaultNext' = vaultNext + 1
       ELSE UNCHANGED << vaultSessions, vaultArchives, vaultNext >>

\* ---- Seedbank.upload_archive ------------------------------------------------------
\* the receipt recorded without its archiveId
record_upload_no_id(response, commitOk) ==
    /\ archives' = [archives EXCEPT ![cur].aws_response = response]
    /\ metaFiles' = (archives[cur].uid :> to_file(archives'[cur])) @@ metaFiles
    /\ IF commitOk
       THEN /\ history' = Append(history,
                    [uid |-> archives[cur].uid, location |-> response.location])
            /\ lastResult' = "ok"
       ELSE /\ history' = history
            /\ lastResult' = "commit_error"

\* the metadata file rewritten before the receipt is recorded
record_upload_stale_file(response, commitOk) ==
    /\ archives' = [archives EXCEPT ![cur].aws_response = response,
                                    ![cur].remote_id = response.archiveId]
    /\ metaFiles' = (archives[cur].uid :> to_file(archives[cur])) @@ metaFiles
    /\ IF commitOk
       THEN /\ history' = Append(history,
                    [uid |-> archives[cur].uid, location |-> response.location])
            /\ lastResult' = "ok"
       ELSE /\ history' = history
            /\ lastResult' = "commit_error"

\* the record and the metadata file put back when the commit fails
record_upload_rollback(response, commitOk) ==
    IF commitOk
    THEN /\ archives' = [archives EXCEPT ![cur].aws_response = response,
                                         ![cur].remote_id = response.archiveId]
         /\ metaFiles' = (archives[cur].uid :> to_file(archives'[cur])) @@ metaFiles
         /\ history' = Append(history,
                 [uid |-> archives[cur].uid, location |-> response.location])
         /\ lastResult' = "ok"
    ELSE /\ UNCHANGED << archives, metaFiles, history >>
         /\ lastResult' = "commit_error"

\* lines 496-506: record the receipt, rewrite the metadata file, commit
record_upload(response, commitOk) ==
    /\ archives' = [archives EXCEPT ![cur].aws_response = response,
                                    ![cur].remote_id = response.archiveId]
    /\ metaFiles' = (archives[cur].uid :> to_file(archives'[cur])) @@ metaFiles
    /\ IF commitOk
       THEN /\ history' = Append(history,
                    [uid |-> archives[cur].uid, location |-> response.location])
            /\ lastResult' = "ok"
       ELSE /\ history' = history
            /\ lastResult' = "commit_error"

\* the threshold itself sent in parts
use_multipart_at(size, part_size) == size >= 2 * part_size

\* the choice of upload_archive: multipart or one request
use_multipart(size, part_size) == size > 2 * part_size

\* upload_archive up to its first request to the vault
upload_archive(uid_prefix) ==
    /\ pc = "idle"
    /\ vaultNext <= MaxVaultIds
    /\ calls' = <<>>
    /\ LET r == resolve_archive(archives, uid_prefix) IN
       IF r.kind # "archive"
       THEN /\ lastResult' = r.kind
            /\ UNCHANGED << pc, cur, uploader >>
       ELSE IF archives[r.index].uid \notin DOMAIN localFiles
       THEN /\ lastResult' = "missing_local"
            /\ UNCHANGED << pc, cur, uploader >>
       ELSE /\ cur' = r.index
            /\ lastResult' = "running"
            /\ IF use_multipart(localFiles[archives[r.index].uid], PART_SIZE)
               THEN /\ uploader' = open(NewUploader(archives[r.index].uid), localFiles)
                    /\ pc' = "start_upload"
               ELSE /\ pc' = "upload_whole"
                    /\ UNCHANGED uploader
    /\ UNCHANGED << PART_SIZE, listing, jsonDoc, repoDir, archives, everUploaded, metaFiles, localFiles, infoMembers,
                    history, vaultSessions, vaultArchives, vaultNext >>

\* an abort that forgets the receipt of an earlier upload
Abort_forget ==
    /\ pc' = "idle"
    /\ lastResult' = "vault_error"
    /\ archives' = [archives EXCEPT ![cur].remote_id = <<>>,
                                    ![cur].aws_response = EmptyDict]
    /\ UNCHANGED << everUploaded, metaFiles, history >>

\* the command ends with an exception from the vault
Abort ==
    /\ pc' = "idle"
    /\ lastResult' = "vault_error"
    /\ UNCHANGED << archives, everUploaded, metaFiles, history >>

\* Seedbank.upload_whole_archive and the rest of upload_archive
upload_whole_archive(ok, commitOk) ==
    /\ pc = "upload_whole"
    /\ LET id   == VaultId(vaultNext)
           size == localFiles[archives[cur].uid]
       IN
       /\ calls' = Append(calls,
              Call("upload_archive", <<>>, NoRange, size, size, ok, FALSE))
       /\ IF ok
          THEN /\ vaultArchives' = vaultArchives \cup {id}
               /\ vaultNext' = vaultNext + 1
               /\ everUploaded' = [everUploaded EXCEPT ![cur] = TRUE]
               /\ record_upload(Receipt(id), commitOk)
               /\ pc' = "idle"
          ELSE /\ Abort
               /\ UNCHANGED << vaultArchives, vaultNext >>
    /\ UNCHANGED << PART_SIZE, listing, jsonDoc, repoDir, localFiles, infoMembers, uploader, vaultSessions, cur >>

\* Seedbank.upload_multipart_archive: uploader.upload(), its start_upload
mp_start_upload(ok) ==
    /\ pc = "start_upload"
    /\ start_upload(ok)
    /\ IF ok
       THEN /\ pc' = "upload_part"
            /\ UNCHANGED << archives, everUploaded, metaFiles, history, lastResult >>
       ELSE Abort
    /\ UNCHANGED << PART_SIZE, listing, jsonDoc, repoDir, localFiles, infoMembers, vaultArchives, cur >>

\* uploader.upload(): one turn of `while not self.upload_part()`
mp_upload_part(ok) ==
    /\ pc = "upload_part"
    /\ upload_part(ok)
    /\ IF ok
       THEN /\ pc' = IF upload_part_done(uploader'.tell, uploader.zip_file_size)
                     THEN "complete" ELSE "upload_part"
            /\ UNCHANGED << archives, everUploaded, metaFiles, history, lastResult >>
       ELSE Abort
    /\ UNCHANGED << PART_SIZE, listing, jsonDoc, repoDir, localFiles, infoMembers, vaultSessions, vaultArchives,
                    vaultNext, cur >>

\* uploader.upload(): its completion, and the rest of upload_archive
mp_complete(ok, commitOk) ==
    /\ pc = "complete"
    /\ complete_upload(ok)
    /\ IF ok
       THEN /\ everUploaded' = [everUploaded EXCEPT ![cur] = TRUE]
            /\ record_upload(Receipt(VaultId(vaultNext)), commitOk)
            /\ pc' = "idle"
       ELSE Abort
    /\ UNCHANGED << PART_SIZE, listing, jsonDoc, repoDir, localFiles, infoMembers, cur >>

\* the prefixes a user can type: every string of at most UidLen digits
Prefixes == UNION { [1 .. n -> UidDigits] : n \in 0 .. UidLen }

\* ---- MultipartUploader driven on its own ---------------------------------------
\* the payload of the stand-alone uploader
ZipPath == make_now_hash(0)

\* a MultipartUploader constructed over a payload of any size, the vault empty
InitUploader ==
    /\ PART_SIZE \in 1 .. MaxPartSize
    /\ archives = <<>>
    /\ everUploaded = <<>>
    /\ metaFiles = <<>>
    /\ \E size \in 0 .. MaxSize : localFiles = (ZipPath :> size)
    /\ history = <<>>
    /\ uploader = NewUploader(ZipPath)
    /\ calls = <<>>
    /\ vaultSessions = {}
    /\ vaultArchives = {}
    /\ vaultNext = 1
    /\ pc = "created"
    /\ cur = 0
    /\ lastResult = "none"
    /\ infoMembers = <<>>
    /\ listing = NotUsed
    /\ jsonDoc = NotUsed
    /\ repoDir = NotUsed

\* what no method of the uploader touches
UploaderFrame ==
    UNCHANGED << PART_SIZE, listing, jsonDoc, repoDir, archives, everUploaded, metaFiles, localFiles, infoMembers,
                 history, cur >>

\* an exception leaves upload()
UploaderRaise ==
    /\ pc' = "idle"
    /\ lastResult' = "vault_error"

\* uploader.open()
u_open ==
    /\ pc = "created"
    /\ uploader' = open(uploader, localFiles)
    /\ pc' = "start_upload"
    /\ lastResult' = "running"
    /\ UNCHANGED << calls, vaultSessions, vaultArchives, vaultNext >>
    /\ UploaderFrame

\* uploader.upload(): self.start_upload()
u_start_upload(ok) ==
    /\ pc = "start_upload"
    /\ start_upload(ok)
    /\ IF ok THEN pc' = "upload_part" /\ UNCHANGED lastResult ELSE UploaderRaise
    /\ UNCHANGED vaultArchives
    /\ UploaderFrame

\* uploader.upload(): one turn of `while not self.upload_part()`
u_upload_part(ok) ==
    /\ pc = "upload_part"
    /\ upload_part(ok)
    /\ IF ok
       THEN /\ pc' = IF upload_part_done(uploader'.tell, uploader.zip_file_size)
                     THEN "complete" ELSE "upload_part"
            /\ UNCHANGED lastResult
       ELSE UploaderRaise
    /\ UNCHANGED << vaultSessions, vaultArchives, vaultNext >>
    /\ UploaderFrame

\* uploader.upload(): the completion; upload() returns the response
u_complete(ok) ==
    /\ pc = "complete"
    /\ complete_upload(ok)
    /\ IF ok THEN pc' = "idle" /\ lastResult' = "ok" ELSE UploaderRaise
    /\ UploaderFrame

NextUploader ==
    \/ u_open
    \/ \E ok \in BOOLEAN : u_start_upload(ok)
    \/ \E ok \in BOOLEAN : u_upload_part(ok)
    \/ \E ok \in BOOLEAN : u_complete(ok)

UploaderSpec == InitUploader /\ [][NextUploader]_vars

\* upload() is synchronous: the interpreter keeps executing the method, so a
\* statement that can run does run
UploaderLiveSpec == UploaderSpec /\ WF_vars(NextUploader)

\* ---- MultipartUploader, its methods called in any order ---------------------------
\* a MultipartUploader constructed over a payload of one or two parts
InitApi ==
    /\ PART_SIZE = MaxPartSize
    /\ archives = <<>>
    /\ everUploaded = <<>>
    /\ metaFiles = <<>>
    /\ \E size \in 1 .. MaxPartSize + 1 : localFiles = (ZipPath :> size)
    /\ history = <<>>
    /\ uploader = NewUploader(ZipPath)
    /\ calls = <<>>
    /\ vaultSessions = {}
    /\ vaultArchives = {}
    /\ vaultNext = 1
    /\ pc = "idle"
    /\ cur = 0
    /\ lastResult = "none"
    /\ infoMembers = <<>>
    /\ listing = NotUsed
    /\ jsonDoc = NotUsed
    /\ repoDir = NotUsed

\* the method reads an attribute that open() or start_upload() has not set yet:
\* AttributeError, before any request
AttributeError ==
    /\ lastResult' = "attribute_error"
    /\ UNCHANGED << uploader, calls, vaultSessions, vaultArchives, vaultNext, pc >>

\* the caller calls uploader.open()
a_open ==
    /\ pc = "idle"
    /\ uploader' = open(uploader, localFiles)
    /\ lastResult' = "opened"
    /\ UNCHANGED << calls, vaultSessions, vaultArchives, vaultNext, pc >>
    /\ UploaderFrame

\* the caller calls uploader.start_upload()
a_start_upload(ok) ==
    /\ pc = "idle"
    /\ Len(calls) < MaxApiCalls
    /\ IF ~uploader.opened
       THEN AttributeError
       ELSE /\ start_upload(ok)
            /\ lastResult' = IF ok THEN "started" ELSE "vault_error"
            /\ UNCHANGED << vaultArchives, pc >>
    /\ UploaderFrame

\* the caller calls uploader.upload_part()
a_upload_part(ok) ==
    /\ pc = "idle"
    /\ Len(calls) < MaxApiCalls
    /\ IF ~uploader.opened \/ uploader.upload_id = <<>>
       THEN AttributeError
       ELSE /\ upload_part(ok)
            /\ lastResult' = IF ok THEN "part_sent" ELSE "vault_error"
            /\ UNCHANGED << vaultSessions, vaultArchives, vaultNext, pc >>
    /\ UploaderFrame

\* the caller calls uploader.upload(): its first statement, self.start_upload()
a_upload(ok) ==
    /\ pc = "idle"
    /\ Len(calls) < MaxApiCalls
    /\ IF ~uploader.opened
       THEN AttributeError
       ELSE /\ start_upload(ok)
            /\ IF ok THEN pc' = "upload_part" /\ lastResult' = "running"
                     ELSE UploaderRaise
            /\ UNCHANGED vaultArchives
    /\ UploaderFrame

NextApi ==
    \/ a_open
    \/ \E ok \in BOOLEAN : a_start_upload(ok)
    \/ \E ok \in BOOLEAN : a_upload_part(ok)
    \/ \E ok \in BOOLEAN : a_upload(ok)
    \/ \E ok \in BOOLEAN : u_upload_part(ok)
    \/ \E ok \in BOOLEAN : u_complete(ok)

ApiSpec == InitApi /\ [][NextApi]_vars

\* ---- Seedbank.init and connect on a directory ------------------------------------
\* The directory is a record: exists says whether the path exists; git, conf and
\* gitignore are empty when .git, seedbank.json and .gitignore are absent and
\* otherwise hold the number of commits, the configuration and the text; dirs
\* holds the sub-directories present.
DEFAULT_CONFIG == [vault_name |-> "seedbank"]

NoDirectory ==
    [exists |-> FALSE, git |-> {}, conf |-> {}, gitignore |-> {}, dirs |-> {}]

\* the directories init() can be called on
Directories ==
    { NoDirectory } \cup
    [exists : { TRUE },
     git : { {} } \cup { { n } : n \in 0 .. MaxCommits },
     conf : { {}, { DEFAULT_CONFIG }, { [vault_name |-> "mine"] } },
     gitignore : { {}, { "local" }, { "*.pyc" } },
     dirs : SUBSET { "archives", "local" }]

InitDirectory ==
    /\ repoDir \in Directories
    /\ PART_SIZE = MaxPartSize
    /\ archives = << >>
    /\ everUploaded = << >>
    /\ metaFiles = EmptyDict
    /\ localFiles = EmptyDict
    /\ infoMembers = << >>
    /\ history = << >>
    /\ uploader = NewUploader(<<>>)
    /\ calls = << >>
    /\ vaultSessions = {}
    /\ vaultArchives = {}
    /\ vaultNext = 1
    /\ pc = "idle"
    /\ cur = 0
    /\ lastResult = "none"
    /\ listing = NotUsed
    /\ jsonDoc = NotUsed

DirectoryFrame ==
    UNCHANGED << PART_SIZE, archives, everUploaded, metaFiles, localFiles,
                 infoMembers, history, uploader, calls, vaultSessions,
                 vaultArchives, vaultNext, pc, cur, listing, jsonDoc >>

\* Seedbank.is_repo_initialized
is_repo_initialized(dir) == dir.git # {} /\ dir.conf # {}

\* Seedbank.init: the directory it leaves and how it ends
init_outcome(dir) ==
    IF ~dir.exists
    THEN [dir |-> dir, result |-> "invalid_path"]
    ELSE IF is_repo_initialized(dir)
    THEN [dir |-> dir, result |-> "already_initialized"]
    ELSE [dir |-> [dir EXCEPT
                     !.git = IF dir.git = {} THEN { 1 }
                             ELSE { n + 1 : n \in dir.git },
                     !.conf = { DEFAULT_CONFIG },
                     !.gitignore = { "local" }],
          result |-> "initialized"]

\* Seedbank.connect: the directory it leaves and how it ends
connect_outcome(dir) ==
    IF ~dir.exists
    THEN [dir |-> dir, result |-> "os_error"]
    ELSE LET made == [dir EXCEPT !.dirs = { "archives", "local" }] IN
         IF dir.git = {} THEN [dir |-> made, result |-> "invalid_git_repository"]
         ELSE IF dir.conf = {} THEN [dir |-> made, result |-> "io_error"]
         ELSE [dir |-> made, result |-> "connected"]

\* bank.init()
init ==
    /\ repoDir # NotUsed
    /\ repoDir' = init_outcome(repoDir).dir
    /\ lastResult' = init_outcome(repoDir).result
    /\ DirectoryFrame

\* bank.connect()
connect ==
    /\ repoDir # NotUsed
    /\ repoDir' = connect_outcome(repoDir).dir
    /\ lastResult' = connect_outcome(repoDir).result
    /\ DirectoryFrame

\* `sb init` in the directory (cli.py): refuse, or init() and then connect()
cli_init ==
    /\ repoDir # NotUsed
    /\ repoDir.exists
    /\ IF is_repo_initialized(repoDir)
       THEN /\ lastResult' = "exit_1"
            /\ UNCHANGED repoDir
       ELSE LET made == init_outcome(repoDir) IN
            /\ repoDir' = connect_outcome(made.dir).dir
            /\ lastResult' = connect_outcome(made.dir).result
    /\ DirectoryFrame

NextDirectory == init \/ connect \/ cli_init

DirectorySpec == InitDirectory /\ [][NextDirectory]_vars

\* ---- a session on a repository that already holds archives ---------------------
\* the payload sizes of the archives found at connect(): the single-request
\* threshold and one byte above it
LoadedSizes(part_size) == { 2 * part_size, 2 * part_size + 1 }

\* the archive create_archive made, in an earlier session, at clock reading t
StoredArchive(t, total) == [NewArchive(t) EXCEPT !.size = total - InfoSize]

\* ArchiveManager.parse_files: one Archive per .json file, in the order
\* os.walk lists the files
parse_files(files, names) == [i \in 1 .. Len(names) |-> from_file(files[names[i]])]

\* connect() on a repository whose archives were created in earlier sessions and
\* never uploaded; some payloads are missing from local/ (the repository was
\* fetched without them)
InitConnect ==
    /\ PART_SIZE = MaxPartSize
    /\ \E n \in 0 .. MaxArchives :
       \E ts \in [1 .. n -> ClockReadings] :
       \E totals \in [1 .. n -> LoadedSizes(MaxPartSize)] :
       \E present \in [1 .. n -> BOOLEAN] :
          LET names == [i \in 1 .. n |-> make_now_hash(ts[i])]
              found == { i \in 1 .. n : present[i] }
          IN
          /\ \A i, j \in 1 .. n : i # j => names[i] # names[j]
          /\ metaFiles = [u \in { names[i] : i \in 1 .. n } |->
                 to_file(StoredArchive(
                     ts[CHOOSE i \in 1 .. n : names[i] = u],
                     totals[CHOOSE i \in 1 .. n : names[i] = u]))]
          /\ localFiles = [u \in { names[i] : i \in found } |->
                 totals[CHOOSE i \in 1 .. n : names[i] = u]]
          /\ infoMembers = [u \in { names[i] : i \in found } |-> metaFiles[u]]
          /\ archives = parse_files(metaFiles, names)
          /\ everUploaded = [i \in 1 .. n |-> FALSE]
    /\ history = <<>>
    /\ uploader = NewUploader(<<>>)
    /\ calls = <<>>
    /\ vaultSessions = {}
    /\ vaultArchives = {}
    /\ vaultNext = 1
    /\ pc = "idle"
    /\ cur = 0
    /\ lastResult = "none"
    /\ listing = NotUsed
    /\ jsonDoc = NotUsed
    /\ repoDir = NotUsed

\* the session uploads archives and creates none
NextConnect ==
    \/ \E uid_prefix \in Prefixes : upload_archive(uid_prefix)
    \/ \E ok \in BOOLEAN, commitOk \in BOOLEAN : upload_whole_archive(ok, commitOk)
    \/ \E ok \in BOOLEAN : mp_start_upload(ok)
    \/ \E ok \in BOOLEAN : mp_upload_part(ok)
    \/ \E ok \in BOOLEAN, commitOk \in BOOLEAN : mp_complete(ok, commitOk)

ConnectSpec == InitConnect /\ [][NextConnect]_vars

\* ---- cli.py, the list command: the description column ---------------------------
\* the characters '\n' and '\r', and the width of the column
LF == 10
CR == 13
DescriptionWidth == 40

\* '[No description provided]'
Placeholder == << 91, 78, 111, 32, 100, 101, 115, 99, 114, 105, 112, 116, 105, 111, 110, 32, 112, 114, 111, 118, 105, 100, 101, 100, 93 >>

\* the letters descriptions are written with
Letters == { 97 }

\* s[:n] of Python for any integer n: a negative n counts from the end
slice_to(s, n) ==
    LET stop == IF n < 0 THEN n + Len(s) ELSE n IN
    IF stop <= 0 THEN << >> ELSE SubSeq(s, 1, Min(stop, Len(s)))

\* s.replace(c, '')
replace(s, c) == SelectSeq(s, LAMBDA x : x # c)

\* s.find(c): the 0-based index of the first c in s, -1 when there is none
find(s, c) ==
    IF \E i \in 1 .. Len(s) : s[i] = c
    THEN (CHOOSE i \in 1 .. Len(s) : s[i] = c /\ \A j \in 1 .. i - 1 : s[j] # c) - 1
    ELSE -1

\* the column the list command prints for a description (cli.py 104-112)
description_column(description) ==
    LET truncated == slice_to(description, DescriptionWidth)
        unix == replace(truncated, CR)
        line == slice_to(unix, find(unix, LF))
    IN IF Len(line) = 0 THEN Placeholder ELSE line

\* k letters
Fill(k) == [i \in 1 .. k |-> CHOOSE c \in Letters : TRUE]

\* the descriptions listed: letters up to one past the column's width, then a
\* short tail of letters and line-ending characters
Descriptions ==
    { Fill(k) \o tail :
        k \in 0 .. DescriptionWidth + MaxOver,
        tail \in UNION { [1 .. n -> Letters \cup { LF, CR }] : n \in 0 .. MaxTail } }

InitList ==
    /\ \E description \in Descriptions :
          listing = [description |-> description, column |-> << >>, echoed |-> FALSE]
    /\ PART_SIZE = MaxPartSize
    /\ archives = << >>
    /\ everUploaded = << >>
    /\ metaFiles = EmptyDict
    /\ localFiles = EmptyDict
    /\ infoMembers = << >>
    /\ history = << >>
    /\ uploader = NewUploader(<<>>)
    /\ calls = << >>
    /\ vaultSessions = {}
    /\ vaultArchives = {}
    /\ vaultNext = 1
    /\ pc = "idle"
    /\ cur = 0
    /\ lastResult = "none"
    /\ jsonDoc = NotUsed
    /\ repoDir = NotUsed

\* the body of the loop of list for one archive: click.echo of its row
echo_row ==
    /\ listing # NotUsed
    /\ ~listing.echoed
    /\ listing' = [listing EXCEPT !.column = description_column(listing.description),
                                  !.echoed = TRUE]
    /\ UNCHANGED << PART_SIZE, archives, everUploaded, metaFiles, localFiles,
                    infoMembers, history, uploader, calls, vaultSessions,
                    vaultArchives, vaultNext, pc, cur, lastResult, jsonDoc, repoDir >>

NextList == echo_row

ListSpec == InitList /\ [][NextList]_vars

\* ---- Archive.to_file and Archive.from_file on archives with all their fields -----
\* a datetime, and the texts a description can be
Datetime(second, microsecond) ==
    [type |-> "datetime", fmt |-> "", v |-> << second, microsecond >>]
Text(fmt, spelled) == [type |-> "str", fmt |-> fmt, v |-> spelled]
DescriptionTexts ==
    { Text("", << >>), Text("", << 0 >>), Text(DATE_FMT, << 0 >>),
      Text(ISO8601_FMT, << 0 >>) }

\* the archives create_archive and upload_archive leave in memory
FullArchives ==
    { [uid |-> make_now_hash(t),
       description |-> description,
       create_time |-> Datetime(second, microsecond),
       file_list |-> file_list,
       size |-> size,
       remote_id |-> IF uploaded THEN VaultId(1) ELSE << >>,
       aws_response |-> IF uploaded THEN Receipt(VaultId(1)) ELSE EmptyDict] :
        t \in ClockReadings, description \in DescriptionTexts,
        second \in ClockReadings, microsecond \in 0 .. MaxMicrosecond,
        file_list \in { << >>, << << 0 >> >> }, size \in 0 .. InfoSize,
        uploaded \in BOOLEAN }

InitFile ==
    /\ \E archive \in FullArchives :
          jsonDoc = [archive |-> archive, file |-> NotUsed, loaded |-> NotUsed,
                     stage |-> "memory"]
    /\ PART_SIZE = MaxPartSize
    /\ archives = << >>
    /\ everUploaded = << >>
    /\ metaFiles = EmptyDict
    /\ localFiles = EmptyDict
    /\ infoMembers = << >>
    /\ history = << >>
    /\ uploader = NewUploader(<<>>)
    /\ calls = << >>
    /\ vaultSessions = {}
    /\ vaultArchives = {}
    /\ vaultNext = 1
    /\ pc = "idle"
    /\ cur = 0
    /\ lastResult = "none"
    /\ listing = NotUsed
    /\ repoDir = NotUsed

FileFrame ==
    UNCHANGED << PART_SIZE, archives, everUploaded, metaFiles, localFiles,
                 infoMembers, history, uploader, calls, vaultSessions,
                 vaultArchives, vaultNext, pc, cur, lastResult, listing, repoDir >>

\* archive.to_file(path)
write_file ==
    /\ jsonDoc # NotUsed
    /\ jsonDoc.stage = "memory"
    /\ jsonDoc' = [jsonDoc EXCEPT !.file = to_file(jsonDoc.archive),
                                  !.stage = "written"]
    /\ FileFrame

\* Archive.from_file(path)
read_file ==
    /\ jsonDoc # NotUsed
    /\ jsonDoc.stage = "written"
    /\ jsonDoc' = [jsonDoc EXCEPT !.loaded = from_file(jsonDoc.file),
                                  !.stage = "loaded"]
    /\ FileFrame

NextFile == write_file \/ read_file

FileSpec == InitFile /\ [][NextFile]_vars

\* ---- ArchiveManager.get_list, add and the list command in one session ------------
\* the archive create_archive made at clock reading t, with the fields the list
\* command reads
ListedArchive(t, total) ==
    [uid |-> make_now_hash(t), size |-> total - InfoSize, remote_id |-> << >>,
     aws_response |-> EmptyDict, create_time |-> Datetime(t, 0),
     description |-> Text("", << >>)]

\* datetime <= datetime
datetime_le(x, y) == x.v[1] < y.v[1] \/ (x.v[1] = y.v[1] /\ x.v[2] <= y.v[2])

\* list.sort(key=lambda archive: archive.create_time): stable, ascending
RECURSIVE sort(_)
sort(archs) ==
    IF archs = << >> THEN << >>
    ELSE LET front == sort(SubSeq(archs, 1, Len(archs) - 1))
             last  == archs[Len(archs)]
             k     == Cardinality({ i \in 1 .. Len(front) :
                          datetime_le(front[i].create_time, last.create_time) })
         IN SubSeq(front, 1, k) \o << last >> \o SubSeq(front, k + 1, Len(front))

\* the row click.echo prints for an archive
row(archive) ==
    << slice_to(archive.uid, 8), description_column(archive.description.v) >>

\* connect() on a repository of archives made in earlier sessions; os.walk lists
\* their files in any order. listing.held says whether the caller holds the list
\* get_list returned, listing.rows is what the last list command printed.
InitRegistry ==
    /\ PART_SIZE = MaxPartSize
    /\ \E n \in 0 .. MaxArchives :
       \E ts \in [1 .. n -> ClockReadings] :
       \E totals \in [1 .. n -> LoadedSizes(MaxPartSize)] :
          LET names == [i \in 1 .. n |-> make_now_hash(ts[i])] IN
          /\ \A i, j \in 1 .. n : i # j => names[i] # names[j]
          /\ metaFiles = [u \in { names[i] : i \in 1 .. n } |->
                 to_file(ListedArchive(
                     ts[CHOOSE i \in 1 .. n : names[i] = u],
                     totals[CHOOSE i \in 1 .. n : names[i] = u]))]
          /\ archives = parse_files(metaFiles, names)
          /\ everUploaded = [i \in 1 .. n |-> FALSE]
    /\ localFiles = EmptyDict
    /\ infoMembers = << >>
    /\ history = << >>
    /\ uploader = NewUploader(<<>>)
    /\ calls = << >>
    /\ vaultSessions = {}
    /\ vaultArchives = {}
    /\ vaultNext = 1
    /\ pc = "idle"
    /\ cur = 0
    /\ lastResult = "none"
    /\ listing = [held |-> FALSE, rows |-> << >>]
    /\ jsonDoc = NotUsed
    /\ repoDir = NotUsed

RegistryFrame ==
    UNCHANGED << PART_SIZE, metaFiles, localFiles, infoMembers, history, uploader,
                 calls, vaultSessions, vaultArchives, vaultNext, pc, cur, jsonDoc,
                 repoDir >>

\* bank.get_list(): the caller receives self.archives, the list itself
get_list ==
    /\ listing' = [listing EXCEPT !.held = TRUE]
    /\ lastResult' = "get_list"
    /\ UNCHANGED << archives, everUploaded >>
    /\ RegistryFrame

\* manager.add(archive) of an archive made at clock reading t
manager_add(t, total) ==
    /\ total \in LoadedSizes(PART_SIZE)
    /\ Len(archives) < MaxArchives
    /\ archives' = add(archives, ListedArchive(t, total))
    /\ everUploaded' = Append(everUploaded, FALSE)
    /\ lastResult' = "add"
    /\ UNCHANGED listing
    /\ RegistryFrame

\* the body of the list command on the session's bank: get_list, sort, one row
\* per archive; no archive of this session is uploaded, so everUploaded is
\* the same under every order
list ==
    /\ archives' = sort(archives)
    /\ listing' = [held |-> TRUE,
                   rows |-> [i \in 1 .. Len(archives) |-> row(archives'[i])]]
    /\ lastResult' = "list"
    /\ UNCHANGED everUploaded
    /\ RegistryFrame

NextRegistry ==
    \/ get_list
    \/ \E t \in ClockReadings, total \in 0 .. MaxSize :
          manager_add(t, total)
    \/ list

RegistrySpec == InitRegistry /\ [][NextRegistry]_vars

Next ==
    \/ \E t \in ClockReadings, total \in 0 .. MaxSize : create_archive(t, total)
    \/ \E uid_prefix \in Prefixes : upload_archive(uid_prefix)
    \/ \E ok \in BOOLEAN, commitOk \in BOOLEAN : upload_whole_archive(ok, commitOk)
    \/ \E ok \in BOOLEAN : mp_start_upload(ok)
    \/ \E ok \in BOOLEAN : mp_upload_part(ok)
    \/ \E ok \in BOOLEAN, commitOk \in BOOLEAN : mp_complete(ok, commitOk)

Spec == Init /\ [][Next]_vars

\* ==== the claims ====================================================================
\* the upload-part requests of the running (or last) upload, in the order sent
PartCalls == SelectSeq(calls, LAMBDA c : c.op = "upload_multipart_part")

\* the request is one of the multipart protocol
IsMultipartOp(op) ==
    op \in {"initiate_multipart_upload", "upload_multipart_part",
            "complete_multipart_upload"}

\* ceil(s / p)
CeilDiv(s, p) == (s + p - 1) \div p

\* C1: every part sent at an offset c below the total size S carries the range
\* c .. min(c + PART_SIZE - 1, S - 1) of S.
C1_PartRange ==
    \A i \in 1 .. Len(PartCalls) :
        LET c == PartCalls[i].range[1]
            S == uploader.zip_file_size
        IN c < S =>
             PartCalls[i].range = << c, Min(c + PART_SIZE - 1, S - 1), S >>

\* C2: a run of upload() that returns has sent exactly ceil(S / PART_SIZE)
\* parts between its initiate and its complete request.
C2_PartCount ==
    (pc = "idle" /\ lastResult = "ok") =>
        /\ Len(calls) = Len(PartCalls) + 2
        /\ Len(PartCalls) = CeilDiv(uploader.zip_file_size, PART_SIZE)

\* C3: upload_part returns True on the call that sends the final part, the one
\* that leaves the read offset at the total size, and on no other; a run that
\* returns has seen True exactly once, on its last part.
C3_DoneOnce ==
    LET S == uploader.zip_file_size IN
    /\ \A i \in 1 .. Len(PartCalls) :
          PartCalls[i].ok =>
             /\ PartCalls[i].done <=> (PartCalls[i].range[1] + PART_SIZE >= S)
             /\ PartCalls[i].done <=> (PartCalls[i].range[1] + PartCalls[i].body = S)
             /\ PartCalls[i].done => i = Len(PartCalls)
    /\ (pc = "idle" /\ lastResult = "ok") =>
          /\ Len(PartCalls) >= 1
          /\ PartCalls[Len(PartCalls)].done
    /\ pc = "complete" => PartCalls[Len(PartCalls)].done

\* C3 witness: a run of three parts or more has returned, its last part done
C3_Witness ==
    /\ pc = "idle"
    /\ lastResult = "ok"
    /\ Len(PartCalls) >= 3
    /\ PartCalls[Len(PartCalls)].done
    /\ ~PartCalls[1].done

\* C4: a payload of at most 2 * PART_SIZE bytes goes to the vault in exactly one
\* upload_archive request and no multipart request; a larger one goes through
\* the multipart requests and no upload_archive request.
C4_Strategy ==
    /\ pc = "upload_whole" =>
          /\ localFiles[archives[cur].uid] <= 2 * PART_SIZE
          /\ calls = <<>>
    /\ pc \in {"start_upload", "upload_part", "complete"} =>
          /\ localFiles[archives[cur].uid] > 2 * PART_SIZE
          /\ uploader.zip_file_size = localFiles[archives[cur].uid]
    /\ \A i \in 1 .. Len(calls) :
          /\ calls[i].op = "upload_archive" =>
                (Len(calls) = 1 /\ calls[i].size <= 2 * PART_SIZE)
          /\ IsMultipartOp(calls[i].op) =>
                (uploader.zip_file_size > 2 * PART_SIZE
                 /\ \A j \in 1 .. Len(calls) : IsMultipartOp(calls[j].op))
    /\ (pc = "idle" /\ lastResult \in {"ok", "commit_error", "vault_error"}) =>
          calls # <<>>

\* C4 witness: a payload of exactly 2 * PART_SIZE bytes was sent in one request
C4_Witness ==
    /\ pc = "idle"
    /\ lastResult = "ok"
    /\ Len(calls) = 1
    /\ calls[1].op = "upload_archive"
    /\ calls[1].size = 2 * PART_SIZE

\* the registry indices of the archives whose uid starts with the prefix
Matching(uid_prefix) ==
    { i \in 1 .. Len(archives) : startswith(archives[i].uid, uid_prefix) }

\* C5: get_archive returns None when no uid starts with the prefix, that archive
\* when exactly one does, and raises when two or more do.
C5_GetArchive ==
    \A uid_prefix \in Prefixes :
        LET r == get_archive(archives, uid_prefix)
            n == Cardinality(Matching(uid_prefix))
        IN /\ n = 0 => r.kind = "None"
           /\ n = 1 => (r.kind = "archive" /\ Matching(uid_prefix) = {r.index})
           /\ n >= 2 => r.kind = "raise"

\* C5 witness: an upload was refused for a prefix that two archives share, in
\* a registry where another prefix names one archive
C5_Witness ==
    /\ lastResult = "ambiguous"
    /\ Len(archives) = 2
    /\ archives[1].uid # archives[2].uid
    /\ \E uid_prefix \in Prefixes : Cardinality(Matching(uid_prefix)) = 1
    /\ \E uid_prefix \in Prefixes : Cardinality(Matching(uid_prefix)) = 0

\* C6: an archive of the registry has an empty remote_id exactly when no upload
\* of it has succeeded at the vault.
C6_RemoteIdIffUploaded ==
    /\ Len(everUploaded) = Len(archives)
    /\ \A i \in 1 .. Len(archives) :
          (archives[i].remote_id = <<>>) <=> ~everUploaded[i]

\* C6 witness: one archive is uploaded, the upload of another has just failed
C6_Witness ==
    /\ pc = "idle"
    /\ lastResult = "vault_error"
    /\ \E i, j \in 1 .. Len(archives) :
          /\ is_uploaded(archives[i]) /\ everUploaded[i]
          /\ ~is_uploaded(archives[j]) /\ ~everUploaded[j]
          /\ cur = j

\* C7: no two archives of the registry have the same uid.
C7_UidUnique ==
    \A i, j \in 1 .. Len(archives) :
        i # j => archives[i].uid # archives[j].uid

\* C8: a chunked upload_archive run sends, with the uploader opened, one
\* initiate request first, then parts carrying the uploadId it returned, then
\* one complete request for that uploadId with the size recorded at open.
C8_ChunkedOrder ==
    (calls # <<>> /\ IsMultipartOp(calls[1].op)) =>
        /\ uploader.opened
        /\ calls[1].op = "initiate_multipart_upload"
        /\ ~calls[1].ok => Len(calls) = 1
        /\ \A i \in 2 .. Len(calls) :
              /\ calls[i].op \in {"upload_multipart_part", "complete_multipart_upload"}
              /\ calls[i].uploadId = calls[1].uploadId
              /\ calls[i].uploadId # <<>>
              /\ calls[i - 1].ok
              /\ calls[i].op = "complete_multipart_upload" =>
                    /\ i = Len(calls)
                    /\ calls[i - 1].op = "upload_multipart_part"
                    /\ calls[i].size = uploader.zip_file_size
        /\ (pc = "idle" /\ lastResult \in {"ok", "commit_error"}) =>
              /\ calls[Len(calls)].op = "complete_multipart_upload"
              /\ calls[Len(calls)].ok
        /\ pc \in {"start_upload", "upload_part", "complete"} =>
              uploader.zip_file_size = localFiles[uploader.zip_path]

\* C8 witness: a chunked run of three parts has returned
C8_Witness ==
    /\ pc = "idle"
    /\ lastResult = "ok"
    /\ Len(calls) >= 5
    /\ calls[1].op = "initiate_multipart_upload"
    /\ calls[Len(calls)].op = "complete_multipart_upload"
    /\ is_uploaded(archives[cur])

\* C9: the first part starts at offset 0 and each later part starts right after
\* the bytes, and right after the range, of the part before it.
C9_PartsContiguous ==
    /\ Len(PartCalls) >= 1 => PartCalls[1].range[1] = 0
    /\ \A i \in 2 .. Len(PartCalls) :
          /\ PartCalls[i].range[1] = PartCalls[i - 1].range[1] + PartCalls[i - 1].body
          /\ PartCalls[i].range[1] = PartCalls[i - 1].range[2] + 1
          /\ PartCalls[i].range[1] > PartCalls[i - 1].range[1]

\* C9 witness: three parts were sent
C9_Witness ==
    /\ Len(PartCalls) >= 3
    /\ PartCalls[3].range[1] = 2 * PART_SIZE

\* C10: no run of upload() ends with a session it started and never completed.
C10_NoStrandedSession ==
    pc = "idle" => vaultSessions = {}

\* the metadata file of archive a holds every field of a
FileHolds(a) ==
    /\ a.uid \in DOMAIN metaFiles
    /\ metaFiles[a.uid].uid = a.uid
    /\ metaFiles[a.uid].size = a.size
    /\ metaFiles[a.uid].remote_id = a.remote_id
    /\ metaFiles[a.uid].aws_response = a.aws_response

\* archive a carries the receipt the vault gave for archive id
HasReceipt(a, id) ==
    /\ id \in vaultArchives
    /\ a.remote_id = id
    /\ DOMAIN a.aws_response = {"archiveId", "location"}
    /\ a.aws_response.archiveId = id
    /\ a.aws_response.location = Location(id)

\* C11: when upload_archive returns normally the archive holds the vault's
\* receipt and its archiveId, and the rewritten metadata file equals the record.
C11_UploadRecorded ==
    (pc = "idle" /\ lastResult = "ok") =>
        /\ HasReceipt(archives[cur], VaultId(vaultNext - 1))
        /\ FileHolds(archives[cur])

\* C11 witness: a chunked upload has returned normally
C11_Witness ==
    /\ pc = "idle"
    /\ lastResult = "ok"
    /\ Len(calls) >= 3
    /\ archives[cur].remote_id = VaultId(vaultNext - 1)

\* C13: when create_archive returns, the archive's metadata file and the
\* info.json member of its payload are the same, and hold the fields of the record.
C13_ManifestMatches ==
    lastResult = "created" =>
        LET a == archives[Len(archives)] IN
        /\ a.uid \in DOMAIN infoMembers
        /\ FileHolds(a)
        /\ infoMembers[a.uid] = metaFiles[a.uid]

\* C13 witness: an archive with a payload before info.json was created
C13_Witness ==
    /\ lastResult = "created"
    /\ archives[Len(archives)].size > 0
    /\ infoMembers[archives[Len(archives)].uid].size = archives[Len(archives)].size

\* C18: after a failed commit the record and the metadata file keep the new
\* receipt, the vault keeps the archive, and no commit records the upload.
C18_NoCompensation ==
    (pc = "idle" /\ lastResult = "commit_error") =>
        /\ HasReceipt(archives[cur], VaultId(vaultNext - 1))
        /\ FileHolds(archives[cur])
        /\ \A i \in 1 .. Len(history) :
              history[i].location # Location(VaultId(vaultNext - 1))

\* C18 witness: the commit of a first upload failed
C18_Witness ==
    /\ pc = "idle"
    /\ lastResult = "commit_error"
    /\ history = <<>>
    /\ is_uploaded(archives[cur])
    /\ metaFiles[archives[cur].uid].remote_id # <<>>

\* C19: a vault request that raises is the last request of the command, and the
\* command ends with the registry, the metadata files and the history as they
\* were before it started.
C19_VaultErrorAborts ==
    /\ [](\A i \in 1 .. Len(calls) :
             ~calls[i].ok => (i = Len(calls) /\ pc = "idle"))
    /\ [][pc' # "idle" => UNCHANGED << archives, metaFiles, history >>]_vars
    /\ [][(pc # "idle" /\ lastResult' = "vault_error") =>
             (pc' = "idle" /\ UNCHANGED << archives, metaFiles, history >>)]_vars

\* C19 witness: the re-upload of an uploaded archive failed at the vault, and
\* the archive still carries the receipt of its first upload
C19_Witness ==
    /\ pc = "idle"
    /\ lastResult = "vault_error"
    /\ Len(calls) = 1
    /\ ~calls[1].ok
    /\ is_uploaded(archives[cur])
    /\ FileHolds(archives[cur])

\* the step is the return of a vault request that stored archive i
UploadSucceeds(i) ==
    /\ cur = i
    /\ pc \in {"upload_whole", "complete"}
    /\ pc' = "idle"
    /\ lastResult' \in {"ok", "commit_error"}
    /\ vaultNext' = vaultNext + 1

FailsBeforeVault ==
    /\ pc' = "idle"
    /\ calls' = <<>>
    /\ UNCHANGED << archives, metaFiles, localFiles, history, vaultSessions,
                    vaultArchives, vaultNext >>

\* C12: upload_archive of a prefix that matches no archive, or several, or one
\* archive whose payload is missing, fails before any request to the vault and
\* changes neither the registry nor any metadata file nor the history.
C12_FailsBeforeVault ==
    [][\A uid_prefix \in Prefixes :
          upload_archive(uid_prefix) =>
             LET m == Matching(uid_prefix) IN
             /\ Cardinality(m) = 0 =>
                   (lastResult' = "not_found" /\ FailsBeforeVault)
             /\ Cardinality(m) >= 2 =>
                   (lastResult' = "ambiguous" /\ FailsBeforeVault)
             /\ (Cardinality(m) = 1
                 /\ \A i \in m : archives[i].uid \notin DOMAIN localFiles) =>
                   (lastResult' = "missing_local" /\ FailsBeforeVault)]_vars

\* C12 witness: an upload was refused because the payload is not in local/,
\* in a registry where other prefixes are ambiguous or match nothing
C12_Witness ==
    /\ lastResult = "missing_local"
    /\ calls = <<>>
    /\ Len(archives) = 2
    /\ \E uid_prefix \in Prefixes : Cardinality(Matching(uid_prefix)) = 0

\* the text of a description before its first line break, "\r\n" being one break
first_line(description) ==
    LET unix == replace(description, CR)
        n == find(unix, LF)
    IN IF n < 0 THEN unix ELSE SubSeq(unix, 1, n)

\* C15: the description column shows the description cut at its first line break
\* and truncated to at most 40 characters, losing no character when there is no
\* line break, and shows the placeholder exactly when the description is empty.
C15_DescriptionColumn ==
    (listing # NotUsed /\ listing.echoed) =>
        LET description == listing.description IN
        /\ (listing.column = Placeholder) <=> (description = << >>)
        /\ description # << >> =>
              listing.column = slice_to(first_line(description), DescriptionWidth)

\* C16: Archive.from_file of the file Archive.to_file wrote yields an archive
\* whose seven fields equal the original's.
C16_RoundTrip ==
    (jsonDoc # NotUsed /\ jsonDoc.stage = "loaded") =>
        /\ DOMAIN jsonDoc.loaded = DOMAIN jsonDoc.archive
        /\ \A k \in DOMAIN jsonDoc.archive : jsonDoc.loaded[k] = jsonDoc.archive[k]

\* C17: whatever the order of the calls to open, start_upload, upload_part and
\* upload, a part reaches the vault only after open and start_upload have run,
\* a completion only after a part of the same session, and a completed session
\* gets no further part or completion.
C17_NoStateSkipped ==
    \A i \in 1 .. Len(calls) :
       /\ calls[i].op = "upload_multipart_part" =>
             /\ uploader.opened
             /\ \E j \in 1 .. i - 1 :
                   /\ calls[j].op = "initiate_multipart_upload"
                   /\ calls[j].ok
                   /\ calls[j].uploadId = calls[i].uploadId
       /\ calls[i].op = "complete_multipart_upload" =>
             \E j \in 1 .. i - 1 :
                /\ calls[j].op = "upload_multipart_part"
                /\ calls[j].uploadId = calls[i].uploadId
       /\ (calls[i].op = "complete_multipart_upload" /\ calls[i].ok) =>
             \A j \in i + 1 .. Len(calls) :
                calls[j].op \in { "upload_multipart_part", "complete_multipart_upload" }
                   => calls[j].uploadId # calls[i].uploadId

\* C20: on a directory that has a seedbank.json, init() raises and changes
\* nothing; no step overwrites an existing seedbank.json.
C20_InitRefuses ==
    [][(repoDir # NotUsed /\ repoDir.exists /\ repoDir.conf # {}) =>
          /\ init => (lastResult' = "already_initialized" /\ UNCHANGED repoDir)
          /\ repoDir'.conf = repoDir.conf]_vars

\* C21: for every payload size and part size the part loop of upload() ends:
\* unless the vault raises, one of at most max(1, ceil(S/P)) upload_part calls
\* returns done, and the complete-multipart request is then issued.
C21_PartLoopTerminates ==
    /\ (pc = "upload_part") ~> (pc = "complete" \/ lastResult = "vault_error")
    /\ (pc = "complete") ~>
          (\E i \in 1 .. Len(calls) : calls[i].op = "complete_multipart_upload")
    /\ [](pc = "complete" =>
            (Len(PartCalls) >= 1 /\ PartCalls[Len(PartCalls)].done))
    /\ [](Len(PartCalls) <=
            IF uploader.zip_file_size = 0 THEN 1
            ELSE CeilDiv(uploader.zip_file_size, PART_SIZE))

\* C21 witness: a loop of several turns has ended and the completion was sent
C21_Witness ==
    /\ pc = "idle"
    /\ Len(PartCalls) >= 2
    /\ PartCalls[Len(PartCalls)].done
    /\ calls[Len(calls)].op = "complete_multipart_upload"
    /\ uploader.zip_file_size % PART_SIZE # 0

\* C22: the registry holds the archives in insertion order after any sequence of
\* get_list, add and list-command calls: every step leaves the archives it held
\* where they were and at most appends, and listing them changes nothing.
C22_InsertionOrder ==
    [][/\ Len(archives') >= Len(archives)
       /\ SubSeq(archives', 1, Len(archives)) = archives
       /\ list => archives' = archives]_vars

====
